---- MODULE Spec2Model ----
(***************************************************************************)
(* Model of src/bot.py: a Telegram task tracker over one SQLite table.     *)
(*                                                                         *)
(* Text values are sequences of one-character strings, so that split,      *)
(* strip, lower, strptime's pattern and SQLite's byte-wise text comparison *)
(* are computed the way the code computes them.                            *)
(*                                                                         *)
(* The columns created_by_id, created_by_username and created_at are       *)
(* written once by the INSERT and are read by no WHERE, ORDER BY or UPDATE *)
(* of the program; the rows of the model leave them out.                   *)
(***************************************************************************)
EXTENDS Integers, Sequences, FiniteSets, TLC

(***************************************************************************)
(* Bounds of the model.                                                    *)
(***************************************************************************)
\* how many rows the table may hold
MaxTasks == 2
\* how far the clock behind CURRENT_TIMESTAMP advances
MaxClock == 2

(***************************************************************************)
(* Characters and text.                                                    *)
(***************************************************************************)
Digits == <<"0", "1", "2", "3", "4", "5", "6", "7", "8", "9">>
UpperCase == <<"A", "B", "C", "D", "E", "F", "G", "H", "I", "J", "K", "L", "M",
               "N", "O", "P", "Q", "R", "S", "T", "U", "V", "W", "X", "Y", "Z">>
LowerCase == <<"a", "b", "c", "d", "e", "f", "g", "h", "i", "j", "k", "l", "m",
               "n", "o", "p", "q", "r", "s", "t", "u", "v", "w", "x", "y", "z">>

\* the characters of the model in code-point order; "²" (U+00B2) is the one
\* non-ASCII character: str.isdigit() accepts it and int() does not
CodePoints ==
    <<" ", "-", ".">> \o Digits \o <<"@">> \o UpperCase \o <<"_">> \o LowerCase
        \o <<"|", "²">>

InSeq(c, s) == \E i \in 1..Len(s) : s[i] = c

IndexIn(c, s) == CHOOSE i \in 1..Len(s) : s[i] = c

\* order-preserving rank of a character (SQLite's BINARY collation compares
\* the UTF-8 bytes, which orders text by code point)
Ord(c) == IndexIn(c, CodePoints)

IsSpace(c) == c = " "

IsDecimal(c) == InSeq(c, Digits)

DigitValue(c) == IndexIn(c, Digits) - 1

\* str.lower() on one character
LowerChar(c) == IF InSeq(c, UpperCase) THEN LowerCase[IndexIn(c, UpperCase)] ELSE c

\* str.lower()
Lower(s) == [i \in 1..Len(s) |-> LowerChar(s[i])]

RECURSIVE LStrip(_)
LStrip(s) == IF s # <<>> /\ IsSpace(Head(s)) THEN LStrip(Tail(s)) ELSE s

RECURSIVE RStrip(_)
RStrip(s) ==
    IF s # <<>> /\ IsSpace(s[Len(s)]) THEN RStrip(SubSeq(s, 1, Len(s) - 1)) ELSE s

\* str.strip()
Strip(s) == RStrip(LStrip(s))

\* raw.split("|"): the fields between the separators, empty fields kept
RECURSIVE SplitFrom(_, _, _)
SplitFrom(s, i, field) ==
    IF i > Len(s) THEN <<field>>
    ELSE IF s[i] = "|" THEN <<field>> \o SplitFrom(s, i + 1, <<>>)
    ELSE SplitFrom(s, i + 1, Append(field, s[i]))

Split(s) == SplitFrom(s, 1, <<>>)

\* decimal value of a short digit sequence
RECURSIVE ToInt(_)
ToInt(s) == IF s = <<>> THEN 0 ELSE 10 * ToInt(SubSeq(s, 1, Len(s) - 1)) + DigitValue(s[Len(s)])

\* str(n) for n >= 0
RECURSIVE ToStr(_)
ToStr(n) == IF n < 10 THEN <<Digits[n + 1]>> ELSE ToStr(n \div 10) \o <<Digits[(n % 10) + 1]>>

\* text comparison of SQLite's BINARY collation: a < b
RECURSIVE TextLess(_, _)
TextLess(a, b) ==
    IF b = <<>> THEN FALSE
    ELSE IF a = <<>> THEN TRUE
    ELSE IF Head(a) # Head(b) THEN Ord(Head(a)) < Ord(Head(b))
    ELSE TextLess(Tail(a), Tail(b))

(***************************************************************************)
(* normalize_username                                                      *)
(***************************************************************************)
normalize_username(value) ==
    LET username == Strip(value)
    IN  IF username # <<>> /\ Head(username) = "@" THEN username
        ELSE <<"@">> \o username

(***************************************************************************)
(* datetime.strptime(due_date, "%Y-%m-%d")                                 *)
(*                                                                         *)
(* _strptime matches the pattern                                           *)
(*   (\d\d\d\d)-(1[0-2]|0[1-9]|[1-9])-(3[01]|[12]\d|0[1-9]|[1-9]| [1-9])   *)
(* at the start of the text, fails when text remains after the match, and  *)
(* then builds the date, which fails for year 0 and for a day the month    *)
(* does not have.                                                          *)
(***************************************************************************)
At(s, i) == IF i >= 1 /\ i <= Len(s) THEN s[i] ELSE "none"

IsDigitAt(s, i) == IsDecimal(At(s, i))

InRange(s, i, lo, hi) ==
    IsDigitAt(s, i) /\ DigitValue(s[i]) >= lo /\ DigitValue(s[i]) <= hi

\* length of the month alternative the pattern takes at position i, 0 for none
MonthLen(s, i) ==
    IF At(s, i) = "1" /\ InRange(s, i + 1, 0, 2) /\ At(s, i + 2) = "-" THEN 2
    ELSE IF At(s, i) = "0" /\ InRange(s, i + 1, 1, 9) /\ At(s, i + 2) = "-" THEN 2
    ELSE IF InRange(s, i, 1, 9) /\ At(s, i + 1) = "-" THEN 1
    ELSE 0

\* length of the day alternative the pattern takes at position i, 0 for none
DayLen(s, i) ==
    IF At(s, i) = "3" /\ InRange(s, i + 1, 0, 1) THEN 2
    ELSE IF InRange(s, i, 1, 2) /\ IsDigitAt(s, i + 1) THEN 2
    ELSE IF At(s, i) = "0" /\ InRange(s, i + 1, 1, 9) THEN 2
    ELSE IF InRange(s, i, 1, 9) THEN 1
    ELSE IF At(s, i) = " " /\ InRange(s, i + 1, 1, 9) THEN 2
    ELSE 0

IsLeap(y) == y % 4 = 0 /\ (y % 100 # 0 \/ y % 400 = 0)

DaysInMonth(y, m) ==
    IF m = 2 THEN (IF IsLeap(y) THEN 29 ELSE 28)
    ELSE IF m \in {4, 6, 9, 11} THEN 30
    ELSE 31

NoDate == [ok |-> FALSE, y |-> 0, m |-> 0, d |-> 0]

\* the date strptime returns, or NoDate where it raises ValueError
strptime(s) ==
    IF ~(IsDigitAt(s, 1) /\ IsDigitAt(s, 2) /\ IsDigitAt(s, 3) /\ IsDigitAt(s, 4)
         /\ At(s, 5) = "-")
    THEN NoDate
    ELSE LET ml == MonthLen(s, 6)
             dl == DayLen(s, 7 + ml)
             y  == ToInt(SubSeq(s, 1, 4))
             m  == ToInt(SubSeq(s, 6, 5 + ml))
             d  == ToInt(LStrip(SubSeq(s, 7 + ml, 6 + ml + dl)))
         IN  IF ml = 0 \/ dl = 0 THEN NoDate
             ELSE IF 6 + ml + dl # Len(s) THEN NoDate
             ELSE IF y < 1 \/ d > DaysInMonth(y, m) THEN NoDate
             ELSE [ok |-> TRUE, y |-> y, m |-> m, d |-> d]

(***************************************************************************)
(* parse_task_input                                                        *)
(***************************************************************************)
Priorities == {<<"l", "o", "w">>, <<"m", "e", "d", "i", "u", "m">>, <<"h", "i", "g", "h">>}

ParseError(reason) == [ok |-> FALSE, error |-> reason]

\* the TaskInput parse_task_input returns, or the ValueError it raises
parse_task_input(raw) ==
    LET parts == [i \in 1..Len(Split(raw)) |-> Strip(Split(raw)[i])]
    IN  IF Len(parts) # 5 THEN ParseError("format")
        ELSE IF parts[1] = <<>> THEN ParseError("title")
        ELSE IF ~strptime(parts[3]).ok THEN ParseError("date")
        ELSE IF Lower(parts[4]) \notin Priorities THEN ParseError("priority")
        ELSE [ok       |-> TRUE,
              title    |-> parts[1],
              assignee |-> normalize_username(parts[2]),
              due_date |-> parts[3],
              priority |-> Lower(parts[4]),
              tags     |-> parts[5]]

(***************************************************************************)
(* The inputs the handlers are tried on.                                   *)
(***************************************************************************)
Chats == {1, 2}

\* update.effective_user: a user with a username, a user without one (the
\* empty text stands for None: the code tests it for truth), and no user
NoUser == [id |-> 0, username |-> <<>>]

Users == {[id |-> 1, username |-> <<"a">>], [id |-> 2, username |-> <<>>]}

Requesters == Users \cup {NoUser}

Bar == <<"|">>

Title == <<"T">>

DateA == <<"2", "0", "2", "4", "-", "0", "1", "-", "0", "1">>

\* 5 January 2024 written without the leading zeros
DateShort == <<"2", "0", "2", "4", "-", "1", "-", "5">>

\* 30 February
DateNoDay == <<"2", "0", "2", "4", "-", "0", "2", "-", "3", "0">>

DateDots == <<"0", "1", ".", "0", "2", ".", "2", "0", "2", "4">>

High == <<"h", "i", "g", "h">>

Medium == <<"M", "e", "d", "i", "u", "m">>

Low == <<"l", "o", "w">>

Urgent == <<"u", "r", "g", "e", "n", "t">>

Join5(t, a, d, p, g) == t \o Bar \o a \o Bar \o d \o Bar \o p \o Bar \o g

\* arguments of /newtask that name a task
GoodRaws ==
    { Join5(<<" ">> \o Title \o <<" ">>, <<"a">>, DateA, <<" ">> \o High, <<"x">>),
      Join5(Title, <<"a">>, DateA, Medium, <<"x">>),
      Join5(Title, <<"@", "u", "s", "e", "r", "_", "2">>, DateShort, Low, <<>>) }

\* arguments of /newtask with a defect
BadRaws ==
    { <<>>,
      Title \o Bar \o <<"a">> \o Bar \o DateA \o Bar \o High,
      Join5(Title, <<"a">>, DateA, Low, Medium \o Bar \o High),
      Join5(<<" ">>, <<"a">>, DateA, High, <<"x">>),
      Join5(Title, <<"a">>, DateNoDay, High, <<"x">>),
      Join5(Title, <<"a">>, DateDots, High, <<"x">>),
      Join5(Title, <<"a">>, DateA \o <<"1">>, High, <<"x">>),
      Join5(Title, <<"a">>, DateA, Urgent, <<"x">>) }

RawInputs == GoodRaws \cup BadRaws

\* parse_task_input on the stripped arguments, worked out once per input
Parsed == [raw \in RawInputs |-> parse_task_input(Strip(raw))]

\* largest value of SQLite's 64-bit INTEGER, in decimal
SqliteMaxInt ==
    <<"9", "2", "2", "3", "3", "7", "2", "0", "3", "6", "8", "5", "4", "7", "7", "5",
      "8", "0", "7">>

TooBig == SubSeq(SqliteMaxInt, 1, 18) \o <<"8">>

\* context.args of /done: the ids the table can hold, one it cannot reach,
\* a number past 64 bits, a superscript digit, a word, nothing, two tokens
DoneArgs ==
    { <<ToStr(i)>> : i \in 1..(MaxTasks + 1) }
        \cup { <<TooBig>>, <<<<"²">>>>, <<<<"x">>>>, <<>>, <<<<"1">>, <<"2">>>> }

(***************************************************************************)
(* The table tasks and the statements the handlers run on it.              *)
(***************************************************************************)
VARIABLES
    store,  \* the rows of table tasks, in insertion order
    seq,    \* sqlite_sequence: the largest id AUTOINCREMENT has given out
    now,    \* the clock CURRENT_TIMESTAMP reads
    last,   \* the command handled last and what its handler did
    pc      \* per concurrent handler: where its /done stands

vars == <<store, seq, now, last, pc>>

\* completed_at of a row that was never completed
NULL == 0

RECURSIVE MaxId(_)
MaxId(table) ==
    IF table = <<>> THEN 0
    ELSE LET m == MaxId(Tail(table))
         IN  IF Head(table).id > m THEN Head(table).id ELSE m

\* a variant that numbers a new row after the rows still open
NextRowId_CountOpen(table, s) ==
    Cardinality({i \in 1..Len(table) : table[i].status = "open"}) + 1

\* id INTEGER PRIMARY KEY AUTOINCREMENT: one more than the largest id ever used
NextRowId(table, s) == (IF MaxId(table) > s THEN MaxId(table) ELSE s) + 1

\* INSERT INTO tasks (...): status and completed_at take their defaults
InsertRow(table, id, chat, task) ==
    Append(table,
           [id                |-> id,
            chat_id           |-> chat,
            title             |-> task.title,
            assignee_username |-> task.assignee,
            due_date          |-> task.due_date,
            priority          |-> task.priority,
            tags              |-> task.tags,
            status            |-> "open",
            completed_at      |-> NULL])

Rows(table) == {table[i] : i \in 1..Len(table)}

\* a variant whose WHERE leaves out chat_id
SelectOpen_AnyChat(table, chat) ==
    {table[i] : i \in {j \in 1..Len(table) : table[j].status = "open"}}

\* WHERE chat_id = ? AND status = 'open'
SelectOpen(table, chat) ==
    {r \in Rows(table) : r.chat_id = chat /\ r.status = "open"}

\* WHERE chat_id = ? AND status = 'open' AND assignee_username = ?
SelectOpenFor(table, chat, username) ==
    {r \in Rows(table) :
        r.chat_id = chat /\ r.status = "open" /\ r.assignee_username = username}

\* ORDER BY due_date ASC, priority DESC, id DESC: a comes before b.
\* due_date and priority are TEXT columns and compare as text.
Before(a, b) ==
    \/ TextLess(a.due_date, b.due_date)
    \/ /\ a.due_date = b.due_date
       /\ \/ TextLess(b.priority, a.priority)
          \/ a.priority = b.priority /\ a.id > b.id

RECURSIVE OrderBy(_)
OrderBy(rows) ==
    IF rows = {} THEN <<>>
    ELSE LET first == CHOOSE r \in rows : \A o \in rows \ {r} : Before(r, o)
         IN  <<first>> \o OrderBy(rows \ {first})

\* a variant whose WHERE leaves out chat_id
SelectById_AnyChat(table, id, chat) ==
    {table[i] : i \in {j \in 1..Len(table) : table[j].id = id}}

\* SELECT * FROM tasks WHERE id = ? AND chat_id = ?
SelectById(table, id, chat) ==
    {r \in Rows(table) : r.id = id /\ r.chat_id = chat}

\* a variant that reopens a task that is already done
UpdateDone_Toggle(table, id, ts) ==
    [i \in 1..Len(table) |->
        IF table[i].id = id
        THEN [table[i] EXCEPT !.status = IF @ = "done" THEN "open" ELSE "done",
                              !.completed_at = ts]
        ELSE table[i]]

\* a variant that sets completed_at and leaves status as it is
UpdateDone_StampOnly(table, id, ts) ==
    [i \in 1..Len(table) |->
        IF table[i].id = id THEN [table[i] EXCEPT !.completed_at = ts] ELSE table[i]]

\* UPDATE tasks SET status = 'done', completed_at = CURRENT_TIMESTAMP WHERE id = ?
UpdateDone(table, id, ts) ==
    [i \in 1..Len(table) |->
        IF table[i].id = id
        THEN [table[i] EXCEPT !.status = "done", !.completed_at = ts]
        ELSE table[i]]

(***************************************************************************)
(* Helpers of the handlers.                                                *)
(***************************************************************************)
NoName == <<>>

\* current_username: None (NoName) without a user
current_username(user) ==
    IF user = NoUser THEN NoName
    ELSE IF user.username # <<>> THEN normalize_username(user.username)
    ELSE normalize_username(<<"u", "s", "e", "r", "_">> \o ToStr(user.id))

\* str.isdigit(): not empty and every character a digit; "²" is one
isdigit(tok) ==
    tok # <<>> /\ \A i \in 1..Len(tok) : IsDecimal(tok[i]) \/ tok[i] = "²"

\* int(tok) raises ValueError unless every character is a decimal digit
IntRaises(tok) == \E i \in 1..Len(tok) : ~IsDecimal(tok[i])

RECURSIVE StripZeros(_)
StripZeros(tok) ==
    IF Len(tok) > 1 /\ Head(tok) = "0" THEN StripZeros(Tail(tok)) ELSE tok

\* binding a Python int to a statement raises OverflowError past 64 bits
BindRaises(tok) ==
    LET d == StripZeros(tok)
    IN  \/ Len(d) > Len(SqliteMaxInt)
        \/ Len(d) = Len(SqliteMaxInt) /\ TextLess(SqliteMaxInt, d)

\* the rows the SELECT of /done finds for int(tok): the ids of the table lie
\* in 1..MaxId(table), and a number outside them matches no row
LookUp(table, tok, chat) ==
    UNION { SelectById(table, id, chat) :
                id \in {i \in 1..MaxId(table) : ToStr(i) = StripZeros(tok)} }

(***************************************************************************)
(* What a handler did: the command, its chat and argument, how it ended,   *)
(* the reply_text calls it made, the rows it listed, the id it created or  *)
(* closed.                                                                 *)
(***************************************************************************)
Did(cmd, chat, arg, outcome, replies, rows, id) ==
    [cmd |-> cmd, chat |-> chat, arg |-> arg, outcome |-> outcome,
     replies |-> replies, rows |-> rows, id |-> id]

Handlers == {1, 2}

Idle == [at |-> "idle", chat |-> 0, args |-> <<>>]

Init ==
    /\ store = <<>>
    /\ seq = 0
    /\ now = 1
    /\ last = Did("none", 0, <<>>, "ok", <<>>, <<>>, 0)
    /\ pc = [h \in Handlers |-> Idle]

(***************************************************************************)
(* newtask                                                                 *)
(***************************************************************************)
\* the table, sqlite_sequence and the record of the handler after /newtask
\* with the joined arguments raw; fail: the store access raises
newtask(table, s, chat, user, raw0, fail) ==
    LET raw  == Strip(raw0)
        task == Parsed[raw0]
        id   == NextRowId(table, s)
        same(outcome, replies) ==
            [store |-> table, seq |-> s,
             last |-> Did("newtask", chat, raw0, outcome, replies, <<>>, 0)]
    IN  IF raw = <<>> THEN same("usage", <<"usage_newtask">>)
        ELSE IF ~task.ok THEN same("validation", <<task.error>>)
        ELSE IF user = NoUser THEN same("exception", <<>>)
        ELSE IF fail THEN same("storage", <<>>)
        ELSE [store |-> InsertRow(table, id, chat, task), seq |-> id,
              last |-> Did("newtask", chat, raw0, "ok", <<"created">>, <<>>, id)]

NewTask(chat, user, raw, fail) ==
    LET r == newtask(store, seq, chat, user, raw, fail)
    IN  /\ Len(r.store) <= MaxTasks
        /\ store' = r.store
        /\ seq' = r.seq
        /\ last' = r.last
        /\ UNCHANGED <<now, pc>>

(***************************************************************************)
(* tasks, mytasks                                                          *)
(***************************************************************************)
tasks(table, chat, fail) ==
    LET rows == OrderBy(SelectOpen(table, chat))
    IN  IF fail THEN Did("tasks", chat, <<>>, "storage", <<>>, <<>>, 0)
        ELSE IF rows = <<>>
        THEN Did("tasks", chat, <<>>, "ok", <<"no_open_tasks">>, <<>>, 0)
        ELSE Did("tasks", chat, <<>>, "ok", <<"list">>, rows, 0)

Tasks(chat, fail) ==
    /\ last' = tasks(store, chat, fail)
    /\ UNCHANGED <<store, seq, now, pc>>

mytasks(table, chat, user, fail) ==
    LET username == current_username(user)
        rows     == OrderBy(SelectOpenFor(table, chat, username))
    IN  IF username = NoName
        THEN Did("mytasks", chat, username, "ok", <<"no_user">>, <<>>, 0)
        ELSE IF fail
        THEN Did("mytasks", chat, username, "storage", <<>>, <<>>, 0)
        ELSE IF rows = <<>>
        THEN Did("mytasks", chat, username, "ok", <<"no_my_tasks">>, <<>>, 0)
        ELSE Did("mytasks", chat, username, "ok", <<"list">>, rows, 0)

MyTasks(chat, user, fail) ==
    /\ last' = mytasks(store, chat, user, fail)
    /\ UNCHANGED <<store, seq, now, pc>>

(***************************************************************************)
(* done                                                                    *)
(***************************************************************************)
\* /done up to its SELECT, with context.args args; fail: the store access
\* raises. go: a row was found and the UPDATE follows.
done_select(table, chat, args, fail) ==
    LET tok == args[1]
        stop(outcome, replies) ==
            [go |-> FALSE,
             last |-> Did("done", chat, args, outcome, replies, <<>>, 0)]
    IN  IF Len(args) # 1 \/ ~isdigit(tok) THEN stop("usage", <<"usage_done">>)
        ELSE IF IntRaises(tok) THEN stop("exception", <<>>)
        ELSE IF fail THEN stop("storage", <<>>)
        ELSE IF BindRaises(tok) THEN stop("exception", <<>>)
        ELSE IF LookUp(table, tok, chat) = {} THEN stop("notfound", <<"not_found">>)
        ELSE [go |-> TRUE,
              last |-> Did("done", chat, args, "selected", <<>>, <<>>, 0)]

\* /done from its UPDATE on, at time ts; fail: the UPDATE or the commit
\* raises, and closing the connection rolls the UPDATE back
done_update(table, chat, args, ts, fail) ==
    LET id == ToInt(StripZeros(args[1]))
    IN  IF fail
        THEN [store |-> table,
              last |-> Did("done", chat, args, "storage", <<>>, <<>>, 0)]
        ELSE [store |-> UpdateDone(table, id, ts),
              last |-> Did("done", chat, args, "ok", <<"closed">>, <<>>, id)]

\* the whole handler: no await separates the SELECT from the UPDATE
done(table, chat, args, ts, fail) ==
    LET s == done_select(table, chat, args, fail)
    IN  IF s.go THEN done_update(table, chat, args, ts, FALSE)
        ELSE [store |-> table, last |-> s.last]

Done(chat, args, fail) ==
    LET r == done(store, chat, args, now, fail)
    IN  /\ store' = r.store
        /\ last' = r.last
        /\ UNCHANGED <<seq, now, pc>>

\* time passes between two commands
Tick ==
    /\ now < MaxClock
    /\ now' = now + 1
    /\ UNCHANGED <<store, seq, last, pc>>

Next ==
    \/ \E chat \in Chats, user \in Requesters, raw \in RawInputs, fail \in BOOLEAN :
          NewTask(chat, user, raw, fail)
    \/ \E chat \in Chats, fail \in BOOLEAN : Tasks(chat, fail)
    \/ \E chat \in Chats, user \in Requesters, fail \in BOOLEAN : MyTasks(chat, user, fail)
    \/ \E chat \in Chats, args \in DoneArgs, fail \in BOOLEAN : Done(chat, args, fail)
    \/ Tick

Spec == Init /\ [][Next]_vars

(***************************************************************************)
(* The same handlers on the inputs that decide what a row of the table     *)
(* holds about its chat, its id and its status: one task text, one         *)
(* rejected text, no text; the ids of the table, one past them, a word.    *)
(***************************************************************************)
CoreRaws ==
    { Join5(Title, <<"a">>, DateA, Medium, <<"x">>),
      Join5(Title, <<"a">>, DateA, Urgent, <<"x">>),
      <<>> }

CoreArgs == { <<ToStr(i)>> : i \in 1..(MaxTasks + 1) } \cup { <<<<"x">>>> }

CoreNext ==
    \/ \E chat \in Chats, user \in Requesters, raw \in CoreRaws, fail \in BOOLEAN :
          NewTask(chat, user, raw, fail)
    \/ \E chat \in Chats, fail \in BOOLEAN : Tasks(chat, fail)
    \/ \E chat \in Chats, user \in Requesters, fail \in BOOLEAN : MyTasks(chat, user, fail)
    \/ \E chat \in Chats, args \in CoreArgs, fail \in BOOLEAN : Done(chat, args, fail)
    \/ Tick

SpecCore == Init /\ [][CoreNext]_vars

(***************************************************************************)
(* Handlers running concurrently on the one table: the SELECT and the      *)
(* UPDATE of /done are separate steps, and the other handler's statements  *)
(* may fall between them.  Every other handler runs one statement.         *)
(***************************************************************************)
ConcRaws ==
    { Join5(Title, <<"a">>, DateA, Medium, <<"x">>),
      Join5(Title, <<"a">>, DateNoDay, High, <<"x">>) }

ConcArgs == { <<ToStr(i)>> : i \in 1..(MaxTasks + 1) }

ConcNewTask(h, chat, user, raw) ==
    /\ pc[h] = Idle
    /\ NewTask(chat, user, raw, FALSE)

ConcTasks(h, chat) ==
    /\ pc[h] = Idle
    /\ Tasks(chat, FALSE)

DoneSelect(h, chat, args, fail) ==
    LET s == done_select(store, chat, args, fail)
    IN  /\ pc[h] = Idle
        /\ last' = s.last
        /\ pc' = IF s.go
                 THEN [pc EXCEPT ![h] = [at |-> "selected", chat |-> chat, args |-> args]]
                 ELSE pc
        /\ UNCHANGED <<store, seq, now>>

DoneUpdate(h, fail) ==
    LET r == done_update(store, pc[h].chat, pc[h].args, now, fail)
    IN  /\ pc[h].at = "selected"
        /\ store' = r.store
        /\ last' = r.last
        /\ pc' = [pc EXCEPT ![h] = Idle]
        /\ UNCHANGED <<seq, now>>

ConcNext ==
    \/ \E h \in Handlers, chat \in Chats, user \in Users, raw \in ConcRaws :
          ConcNewTask(h, chat, user, raw)
    \/ \E h \in Handlers, chat \in Chats : ConcTasks(h, chat)
    \/ \E h \in Handlers, chat \in Chats, args \in ConcArgs, fail \in BOOLEAN :
          DoneSelect(h, chat, args, fail)
    \/ \E h \in Handlers, fail \in BOOLEAN : DoneUpdate(h, fail)
    \/ Tick

SpecConc == Init /\ [][ConcNext]_vars

(***************************************************************************)
(* The properties of the specification, stated on the model.               *)
(***************************************************************************)
Listed == {last.rows[k] : k \in 1..Len(last.rows)}

\* rank of a stored priority under low < medium < high
Rank(p) ==
    IF p = <<"h", "i", "g", "h">> THEN 3
    ELSE IF p = <<"m", "e", "d", "i", "u", "m">> THEN 2
    ELSE 1

\* the calendar day a stored due date names, as one number
DayNumber(text) ==
    LET t == strptime(text) IN t.y * 10000 + t.m * 100 + t.d

\* the order the specification gives for listings: a comes before b
ListedBefore(a, b) ==
    \/ DayNumber(a.due_date) < DayNumber(b.due_date)
    \/ /\ DayNumber(a.due_date) = DayNumber(b.due_date)
       /\ \/ Rank(a.priority) > Rank(b.priority)
          \/ Rank(a.priority) = Rank(b.priority) /\ a.id > b.id

\* C1: what /tasks and /mytasks return is sorted by ascending due date, then
\* by descending priority under high > medium > low, then by descending id.
C1_ListingOrder ==
    last.cmd \in {"tasks", "mytasks"} =>
        \A k \in 1..(Len(last.rows) - 1) : ListedBefore(last.rows[k], last.rows[k + 1])

\* C2: completed_at is null while a task is open, and once it has been set no
\* later command changes it.
C2_CompletedAtSetOnce ==
    /\ [](\A i \in 1..Len(store) :
            store[i].status = "open" => store[i].completed_at = NULL)
    /\ [][\A i \in 1..Len(store) :
            store[i].completed_at # NULL =>
                store'[i].completed_at = store[i].completed_at]_vars

\* C3: /tasks in chat c returns exactly the open tasks of chat c, each once,
\* and answers an empty scope with the no-open-tasks reply.
C3_TasksExactlyOpenOfChat ==
    (last.cmd = "tasks" /\ last.outcome = "ok") =>
        /\ Listed = {store[i] : i \in {j \in 1..Len(store) :
                        store[j].chat_id = last.chat /\ store[j].status = "open"}}
        /\ Len(last.rows) = Cardinality(Listed)
        /\ (last.rows = <<>>) = (last.replies = <<"no_open_tasks">>)
        /\ Len(last.replies) = 1

C3_Witness ==
    /\ last.cmd = "tasks"
    /\ last.rows # <<>>
    /\ \E i \in 1..Len(store) : store[i].chat_id # last.chat /\ store[i].status = "open"

\* the token of /done is written as a number
NamesId(args) == Len(args) = 1 /\ args[1] # <<>> /\ \A k \in 1..Len(args[1]) : IsDecimal(args[1][k])

\* no task of the chat has the id the token names
Unknown(args, chat) ==
    \A i \in 1..Len(store) :
        ~(store[i].chat_id = chat /\ ToStr(store[i].id) = StripZeros(args[1]))

\* C4: /done with an id that does not exist, or that belongs to another chat,
\* is answered with the not-found reply (the store being reachable).
C4_UnknownIdNotFound ==
    (/\ last.cmd = "done"
     /\ NamesId(last.arg)
     /\ last.outcome # "storage"
     /\ Unknown(last.arg, last.chat)) => last.replies = <<"not_found">>

\* C5: every task starts open, no status other than open and done occurs, and
\* a task that is done stays done.
C5_StatusOneWay ==
    /\ [](\A i \in 1..Len(store) : store[i].status \in {"open", "done"})
    /\ [][/\ \A i \in 1..Len(store) :
                store[i].status = "done" =>
                    (i <= Len(store') /\ store'[i].id = store[i].id
                        /\ store'[i].status = "done")
          /\ \A i \in (Len(store) + 1)..Len(store') : store'[i].status = "open"]_vars

C5_Witness ==
    /\ last.cmd = "done"
    /\ last.outcome = "ok"
    /\ \E i \in 1..Len(store) :
          /\ store[i].id = last.id
          /\ store[i].status = "done"
          /\ store[i].completed_at > 1
    /\ \E i \in 1..Len(store) : store[i].status = "open"

\* a due date written exactly as YYYY-MM-DD that names a calendar day
ExactDate(text) ==
    /\ Len(text) = 10
    /\ \A k \in {1, 2, 3, 4, 6, 7, 9, 10} : IsDecimal(text[k])
    /\ text[5] = "-"
    /\ text[8] = "-"
    /\ LET y == ToInt(SubSeq(text, 1, 4))
           m == ToInt(SubSeq(text, 6, 7))
           d == ToInt(SubSeq(text, 9, 10))
       IN  y >= 1 /\ m >= 1 /\ m <= 12 /\ d >= 1 /\ d <= DaysInMonth(y, m)

\* the argument of /newtask is malformed in one of the four ways
Malformed(raw) ==
    LET fields == Split(raw)
    IN  \/ Len(fields) # 5
        \/ Strip(fields[1]) = <<>>
        \/ ~ExactDate(Strip(fields[3]))
        \/ Lower(Strip(fields[4])) \notin Priorities

\* C6: a malformed argument of /newtask is rejected by the parse and no row is
\* inserted.
C6_MalformedRejected ==
    (last.cmd = "newtask" /\ Malformed(last.arg)) =>
        (last.outcome \in {"usage", "validation"} /\ last.id = 0)

\* C7: a command rejected with a validation error, a not-found or a storage
\* failure is answered with exactly one reply.
C7_RejectionReplied ==
    last.outcome \in {"validation", "notfound", "storage"} => Len(last.replies) = 1

\* C8: a successful /done leaves its task done with a completed_at, and no
\* /tasks afterwards lists a task /done has completed.
C8_DoneClosesTask ==
    /\ (last.cmd = "done" /\ last.outcome = "ok") =>
          \E i \in 1..Len(store) :
              /\ store[i].id = last.id
              /\ store[i].chat_id = last.chat
              /\ store[i].status = "done"
              /\ store[i].completed_at # NULL
    /\ last.cmd = "tasks" =>
          \A k \in 1..Len(last.rows) : \A i \in 1..Len(store) :
              store[i].id = last.rows[k].id => store[i].completed_at = NULL

C8_Witness ==
    /\ last.cmd = "tasks"
    /\ last.rows # <<>>
    /\ \E i \in 1..Len(store) :
          store[i].chat_id = last.chat /\ store[i].completed_at # NULL

\* C9: ids are pairwise distinct over the whole table, a created task gets an
\* id above every id given out before, and no row ever leaves the table.
C9_IdsUniqueIncreasing ==
    /\ [](/\ \A i, j \in 1..Len(store) : i # j => store[i].id # store[j].id
          /\ \A i \in 1..Len(store) : store[i].id <= seq)
    /\ [][/\ Len(store') >= Len(store)
          /\ \A i \in 1..Len(store) : store'[i].id = store[i].id
          /\ seq' >= seq
          /\ Len(store') > Len(store) =>
                /\ last'.cmd = "newtask"
                /\ last'.id = store'[Len(store')].id
                /\ last'.id > seq]_vars

C9_Witness ==
    /\ Len(store) >= 2
    /\ store[1].chat_id # store[Len(store)].chat_id
    /\ store[1].status = "done"
    /\ last.cmd = "newtask"
    /\ last.outcome = "ok"

RowsOfChat(table, chat) == {r \in Rows(table) : r.chat_id = chat}

\* C10: with the SELECT and the UPDATE of /done as separate steps and the
\* handlers interleaved, the rows of a chat are changed only by steps of
\* commands issued in that chat.
C10_ChatIsolation ==
    [][\A chat \in Chats :
          RowsOfChat(store', chat) # RowsOfChat(store, chat) => last'.chat = chat]_vars

C10_Witness ==
    /\ last.cmd = "done"
    /\ last.outcome = "ok"
    /\ \E h \in Handlers : pc[h].at = "selected" /\ pc[h].chat # last.chat

====
